---- MODULE Spec2Model ----
(***************************************************************************)
(* State-machine model of the range checker of the Miden VM processor      *)
(* (processor/src/range/mod.rs): the accumulator of 16-bit lookups and the *)
(* materialization of its four-column execution trace (t, s0, s1, v),      *)
(* and of the choice of the trace length by finalize_trace                 *)
(* (processor/src/trace/mod.rs).                                           *)
(***************************************************************************)
EXTENDS Integers, Sequences, FiniteSets, TLC

\* ------------------------------------------------------------------------
\* Program constants
\* ------------------------------------------------------------------------

\* u16::MAX, the upper endpoint seeded by RangeChecker::new
U16_MAX == 65535

\* the widest step allowed between two rows of the 16-bit segment
\* (div_rem(delta, 255), step_by(255), result[255])
MAX_DELTA == 255

\* number of slots of the 8-bit lookup table ([usize; 256])
NUM_8BIT == 256

\* Felt::ZERO and Felt::ONE
ZERO == 0
ONE == 1

\* number of rows at the end of an execution trace which are injected with
\* random values (processor/src/trace/mod.rs)
NUM_RAND_ROWS == 1

\* ------------------------------------------------------------------------
\* Bounds of the model
\* ------------------------------------------------------------------------

\* total number of add_value calls explored
MaxAdds == 3

\* largest number of random rows handed to into_trace, apart from the
\* tail that fills the trace exactly
MaxRandRows == 1

\* number of add_value calls each of two compared accumulators receives
MaxOrderAdds == 2

\* largest number of lookups handed to a direct write_value call
MaxLookups == 7

\* number of direct write_value calls on one trace
MaxWriteCalls == 2

\* number of rows of the trace the direct write_value calls write into
PackLen == 5

\* the u16 values the VM looks up in the explored runs: both endpoints, a
\* value less than 255 after its predecessor, and an exact multiple of 255
\* (which is also 410 = 255 + 155 after 100)
Values == {0, 100, 2 * MAX_DELTA, U16_MAX}

\* the target lengths handed to into_trace: too small, not a power of two,
\* and the smallest power of two that fits
TargetLens == {512, 1000, 1024}

\* what the cells of an uninitialized vector may hold
Garbage == {0, 70000}

\* finalize_trace: the clock cycles of the finalized process (none, fewer
\* than the rows of the range checker, one less than a power of two, a
\* power of two)
Clks == {0, 600, 1023, 1024}

\* finalize_trace: the lengths of the auxiliary table
AuxLens == {0, 1500}

\* finalize_trace: vm_core::MIN_TRACE_LEN, a constant of another crate
MinTraceLens == {1024, 2048}

\* the values handed to the direct write_value calls
PackValues == {100, U16_MAX}

\* the values two compared accumulators receive
OrderValues == {100, 2 * MAX_DELTA}

VARIABLES
    lookups,        \* RangeChecker.lookups: BTreeMap<u16, usize>
    calls,          \* history: number of add_value(x) calls per value x
    pc,             \* "run" | "done" (into_trace returned) | "panic"
    ret,            \* what trace_len() returned for the current multiset,
                    \* NoRet when it was not called since the last add_value
    target_len,     \* into_trace argument
    num_rand_rows,  \* into_trace argument
    uninit,         \* content of the freshly allocated (uninitialized) cells
    trace,          \* the four columns returned by into_trace
    step,           \* into_trace's write cursor i when it returned
    nwrites,        \* number of write_trace_row calls made by into_trace
    seg16,          \* into_trace's cursor i after the 8-bit segment
    err,            \* the panic message, "" when there was no panic
    written,        \* history: the row indices write_trace_row wrote, in order
    order,          \* history: the add_value calls of the accumulator, in
                    \* order (recorded when two accumulators are compared)
    other,          \* a second RangeChecker, with its own history and results
    wv_args,        \* the arguments of the last write_value call made on the
                    \* trace directly, and the number of these calls
    process,        \* finalize_trace: the clock cycle and the length of the
                    \* auxiliary table of the Process being finalized
    min_trace_len   \* finalize_trace: vm_core::MIN_TRACE_LEN

vars == <<lookups, calls, pc, ret, target_len, num_rand_rows, uninit, trace,
          step, nwrites, seg16, err, written, order, other, wv_args, process,
          min_trace_len>>

\* the variables that only the comparison of two accumulators, the direct
\* write_value calls and finalize_trace change
scenario == <<order, other, wv_args, process, min_trace_len>>

NoRet == -1

\* ------------------------------------------------------------------------
\* Helper functions (pure)
\* ------------------------------------------------------------------------

div_rem(value, divisor) == <<value \div divisor, value % divisor>>

lookups_to_rows(num_lookups) ==
    IF num_lookups = 0
    THEN 1
    ELSE LET d4 == div_rem(num_lookups, 4)
             d2 == div_rem(d4[2], 2)
         IN  d4[1] + d2[1] + d2[2]

\* usize::is_power_of_two
RECURSIVE is_power_of_two(_)
is_power_of_two(n) ==
    IF n <= 0 THEN FALSE
    ELSE IF n = 1 THEN TRUE
    ELSE IF n % 2 # 0 THEN FALSE
    ELSE is_power_of_two(n \div 2)

\* BTreeMap::iter(): the keys of the map in ascending order
RECURSIVE SortedSeq(_)
SortedSeq(S) ==
    IF S = {} THEN <<>>
    ELSE LET m == CHOOSE x \in S : \A y \in S : x <= y
         IN  <<m>> \o SortedSeq(S \ {m})

Iter(map) == SortedSeq(DOMAIN map)

\* build_8bit_step counting a bridge row for every full step of 255, also
\* when the last step lands on the value itself
build_8bit_step_bridge_each(acc, value, num_lookups) ==
    LET num_rows == lookups_to_rows(num_lookups)
        r1 == [acc.result EXCEPT ![0] = @ + (num_rows - 1)]
        n1 == acc.num_16bit_rows + num_rows
        delta == value - acc.prev_value
        dr == div_rem(delta, MAX_DELTA)
        delta_q == dr[1]
        delta_r == dr[2]
        r2 == IF delta_q # 0 THEN [r1 EXCEPT ![MAX_DELTA] = @ + delta_q] ELSE r1
        n2 == IF delta_q # 0 THEN n1 + delta_q ELSE n1
        r3 == IF delta_r # 0 THEN [r2 EXCEPT ![delta_r] = @ + 1] ELSE r2
    IN  [result |-> r3, num_16bit_rows |-> n2, prev_value |-> value]

\* build_8bit_step without the zero deltas between the rows of one value
build_8bit_step_no_zero_delta(acc, value, num_lookups) ==
    LET num_rows == lookups_to_rows(num_lookups)
        r1 == acc.result
        n1 == acc.num_16bit_rows + num_rows
        delta == value - acc.prev_value
        dr == div_rem(delta, MAX_DELTA)
        delta_q == dr[1]
        delta_r == dr[2]
        r2 == IF delta_q # 0 THEN [r1 EXCEPT ![MAX_DELTA] = @ + delta_q] ELSE r1
        num_bridge_rows == IF delta_r = 0 THEN delta_q - 1 ELSE delta_q
        n2 == IF delta_q # 0 THEN n1 + num_bridge_rows ELSE n1
        r3 == IF delta_r # 0 THEN [r2 EXCEPT ![delta_r] = @ + 1] ELSE r2
    IN  [result |-> r3, num_16bit_rows |-> n2, prev_value |-> value]

\* one iteration of the loop of build_8bit_lookup over (value, num_lookups)
build_8bit_step(acc, value, num_lookups) ==
    LET num_rows == lookups_to_rows(num_lookups)
        r1 == [acc.result EXCEPT ![0] = @ + (num_rows - 1)]
        n1 == acc.num_16bit_rows + num_rows
        delta == value - acc.prev_value
        dr == div_rem(delta, MAX_DELTA)
        delta_q == dr[1]
        delta_r == dr[2]
        r2 == IF delta_q # 0 THEN [r1 EXCEPT ![MAX_DELTA] = @ + delta_q] ELSE r1
        num_bridge_rows == IF delta_r = 0 THEN delta_q - 1 ELSE delta_q
        n2 == IF delta_q # 0 THEN n1 + num_bridge_rows ELSE n1
        r3 == IF delta_r # 0 THEN [r2 EXCEPT ![delta_r] = @ + 1] ELSE r2
    IN  [result |-> r3, num_16bit_rows |-> n2, prev_value |-> value]

RECURSIVE build_8bit_loop(_, _, _)
build_8bit_loop(map, keys, acc) ==
    IF keys = <<>> THEN acc
    ELSE build_8bit_loop(map, Tail(keys),
                         build_8bit_step(acc, Head(keys), map[Head(keys)]))

\* RangeChecker::build_8bit_lookup: <<lookups_8bit, num_16bit_rows>>
build_8bit_lookup(map) ==
    LET acc == build_8bit_loop(map, Iter(map),
                   [result |-> [k \in 0..(NUM_8BIT - 1) |-> 0],
                    num_16bit_rows |-> 0,
                    prev_value |-> 0])
    IN  <<acc.result, acc.num_16bit_rows>>

\* the loop of get_num_8bit_rows over the slots lo..hi of the table (the
\* additions are grouped in halves, which keeps the evaluation shallow)
RECURSIVE get_num_8bit_rows_in(_, _, _)
get_num_8bit_rows_in(table, lo, hi) ==
    IF lo > hi THEN 0
    ELSE IF lo = hi THEN lookups_to_rows(table[lo])
    ELSE LET mid == (lo + hi) \div 2
         IN  get_num_8bit_rows_in(table, lo, mid)
               + get_num_8bit_rows_in(table, mid + 1, hi)

get_num_8bit_rows(table) == get_num_8bit_rows_in(table, 0, NUM_8BIT - 1)

\* RangeChecker::trace_len
trace_len_built(b) == get_num_8bit_rows(b[1]) + b[2]

trace_len(map) == trace_len_built(build_8bit_lookup(map))

\* ------------------------------------------------------------------------
\* Trace writing.  A writer w carries the four columns trace[0..3] as its
\* fields t, s0, s1, v (each a sequence: row r of the Rust vector is element
\* r + 1), their length, the cursor, the number of rows written so far and
\* whether an index went out of bounds (a Rust panic).  Field elements are
\* written as the integers they embed: every value written is below 2^16,
\* far below the field modulus, so Felt::new reduces nothing.
\* ------------------------------------------------------------------------

Repeat(val, n) == [r \in 1..n |-> val]

\* uninit_vector(len) for the four columns: every cell holds garbage g
alloc_trace(len, g) ==
    [t |-> Repeat(g, len) \o <<>>, s0 |-> Repeat(g, len) \o <<>>,
     s1 |-> Repeat(g, len) \o <<>>, v |-> Repeat(g, len) \o <<>>,
     len |-> len, step |-> 0, nwrites |-> 0, rows |-> <<>>, oob |-> FALSE]

\* fill_to stopping one cell short
fill_to_short(w, c, n, val) ==
    IF w.oob \/ n > w.len THEN [w EXCEPT !.oob = TRUE]
    ELSE IF n = 0 THEN w
    ELSE [w EXCEPT ![c] = Repeat(val, n - 1) \o SubSeq(@, n, w.len)]

\* trace[c][..n].fill(val)
fill_to(w, c, n, val) ==
    IF w.oob \/ n > w.len THEN [w EXCEPT !.oob = TRUE]
    ELSE [w EXCEPT ![c] = Repeat(val, n) \o SubSeq(@, n + 1, w.len)]

\* trace[c][n..].fill(val)
fill_from(w, c, n, val) ==
    IF w.oob \/ n > w.len THEN [w EXCEPT !.oob = TRUE]
    ELSE [w EXCEPT ![c] = SubSeq(@, 1, n) \o Repeat(val, w.len - n)]

\* write_trace_row leaving the cursor where it was
write_trace_row_no_advance(w, s0, s1, value) ==
    IF w.oob \/ w.step >= w.len THEN [w EXCEPT !.oob = TRUE]
    ELSE [w EXCEPT !.s0[w.step + 1] = s0,
                   !.s1[w.step + 1] = s1,
                   !.v[w.step + 1] = value,
                   !.nwrites = @ + 1,
                   !.rows = Append(@, w.step)]

\* trace[1][*step] = s0; trace[2][*step] = s1; trace[3][*step] = value;
\* *step += 1
write_trace_row(w, s0, s1, value) ==
    IF w.oob \/ w.step >= w.len THEN [w EXCEPT !.oob = TRUE]
    ELSE [w EXCEPT !.s0[w.step + 1] = s0,
                   !.s1[w.step + 1] = s1,
                   !.v[w.step + 1] = value,
                   !.step = @ + 1,
                   !.nwrites = @ + 1,
                   !.rows = Append(@, w.step)]

\* In the operators below a writer that went out of bounds is handed on
\* unchanged: the panic ended the call, so nothing after it runs.

\* for _ in 0..n { write_trace_row(trace, step, s0, s1, value) }
\* (the n iterations run in order, split in halves to keep the evaluation
\* shallow)
RECURSIVE write_rows(_, _, _, _, _)
write_rows(w, n, s0, s1, value) ==
    IF w.oob \/ n <= 0 THEN w
    ELSE IF n = 1 THEN write_trace_row(w, s0, s1, value)
    ELSE write_rows(write_rows(w, n \div 2, s0, s1, value),
                    n - (n \div 2), s0, s1, value)

\* write_value giving the two-lookup rows the selector of a single lookup
write_value_pair_as_one(w, num_lookups, value) ==
    IF w.oob THEN w
    ELSE IF num_lookups = 0
    THEN write_trace_row(w, ZERO, ZERO, value)
    ELSE write_rows(
             write_rows(
                 write_rows(w, div_rem(num_lookups, 4)[1], ONE, ONE, value),
                 div_rem(div_rem(num_lookups, 4)[2], 2)[1], ONE, ZERO, value),
             div_rem(div_rem(num_lookups, 4)[2], 2)[2], ONE, ZERO, value)

\* write_value writing the one-lookup row before the two-lookup row
write_value_single_first(w, num_lookups, value) ==
    IF w.oob THEN w
    ELSE IF num_lookups = 0
    THEN write_trace_row(w, ZERO, ZERO, value)
    ELSE write_rows(
             write_rows(
                 write_rows(w, div_rem(num_lookups, 4)[1], ONE, ONE, value),
                 div_rem(div_rem(num_lookups, 4)[2], 2)[2], ONE, ZERO, value),
             div_rem(div_rem(num_lookups, 4)[2], 2)[1], ZERO, ONE, value)

write_value(w, num_lookups, value) ==
    IF w.oob THEN w
    ELSE IF num_lookups = 0
    THEN write_trace_row(w, ZERO, ZERO, value)
    ELSE write_rows(
             write_rows(
                 write_rows(w, div_rem(num_lookups, 4)[1], ONE, ONE, value),
                 div_rem(div_rem(num_lookups, 4)[2], 2)[1], ZERO, ONE, value),
             div_rem(div_rem(num_lookups, 4)[2], 2)[2], ONE, ZERO, value)

\* write_8bit_segment writing no row for a value without lookups
RECURSIVE write_8bit_segment_looked_up(_, _, _, _)
write_8bit_segment_looked_up(w, table, lo, hi) ==
    IF w.oob \/ lo > hi THEN w
    ELSE IF lo = hi
    THEN IF table[lo] = 0 THEN w ELSE write_value(w, table[lo], lo)
    ELSE write_8bit_segment_looked_up(
             write_8bit_segment_looked_up(w, table, lo, (lo + hi) \div 2),
             table, ((lo + hi) \div 2) + 1, hi)

\* for (value, num_lookups) in lookups_8bit.into_iter().enumerate()
\* (the values lo..hi in ascending order)
RECURSIVE write_8bit_segment(_, _, _, _)
write_8bit_segment(w, table, lo, hi) ==
    IF w.oob \/ lo > hi THEN w
    ELSE IF lo = hi THEN write_value(w, table[lo], lo)
    ELSE write_8bit_segment(write_8bit_segment(w, table, lo, (lo + hi) \div 2),
                            table, ((lo + hi) \div 2) + 1, hi)

\* (lo..hi).step_by(st): lo, lo + st, lo + 2*st, ... while below hi
step_by(lo, hi, st) ==
    IF lo >= hi THEN <<>>
    ELSE [k \in 1..(((hi - lo) + (st - 1)) \div st) |-> lo + (k - 1) * st]

\* Iterator::skip(n)
skip(s, n) == SubSeq(s, n + 1, Len(s))

\* for value in bridge { write_value(trace, i, 0, value) }
\* (the elements lo..hi of the iterator, in order)
RECURSIVE write_bridge_rows(_, _, _, _)
write_bridge_rows(w, bridge, lo, hi) ==
    IF w.oob \/ lo > hi THEN w
    ELSE IF lo = hi THEN write_value(w, 0, bridge[lo])
    ELSE write_bridge_rows(write_bridge_rows(w, bridge, lo, (lo + hi) \div 2),
                           bridge, ((lo + hi) \div 2) + 1, hi)

\* bridge_values over the closed range: (prev_value..=value)
bridge_values_through(prev_value, value) ==
    skip(step_by(prev_value, value + 1, MAX_DELTA), 1)

\* bridge_values stepping by 256
bridge_values_wide(prev_value, value) ==
    skip(step_by(prev_value, value, MAX_DELTA + 1), 1)

\* the bridge rows between prev_value and value:
\* (prev_value..value).step_by(255).skip(1)
bridge_values(prev_value, value) == skip(step_by(prev_value, value, MAX_DELTA), 1)

\* for (&value, &num_lookups) in self.lookups.iter()
RECURSIVE write_16bit_segment(_, _, _, _)
write_16bit_segment(w, map, keys, prev_value) ==
    IF w.oob \/ keys = <<>> THEN w
    ELSE write_16bit_segment(
             write_value(
                 write_bridge_rows(w, bridge_values(prev_value, Head(keys)), 1,
                                   Len(bridge_values(prev_value, Head(keys)))),
                 map[Head(keys)], Head(keys)),
             map, Tail(keys), Head(keys))

\* a panic of into_trace: no trace is returned
Panicked(msg) ==
    [pc |-> "panic", err |-> msg, trace |-> <<>>, uninit |-> NoRet,
     step |-> 0, nwrites |-> 0, seg16 |-> 0, written |-> <<>>]

\* into_trace returns the columns (w8 is the writer after the 8-bit segment,
\* w the writer at the end)
Returned(w8, w, g) ==
    IF w.oob THEN Panicked("index out of bounds")
    ELSE [pc |-> "done", err |-> "",
          trace |-> [t |-> w.t, s0 |-> w.s0, s1 |-> w.s1, v |-> w.v],
          uninit |-> g, step |-> w.step, nwrites |-> w.nwrites,
          seg16 |-> w8.step, written |-> w.rows]

\* into_trace_16bit starting the ones of column t one row late
into_trace_16bit_late_flag(map, g, w8) ==
    Returned(w8,
             write_16bit_segment(
                 fill_from(fill_to(w8, "t", w8.step + 1, ZERO), "t", w8.step + 1, ONE),
                 map, Iter(map), 0),
             g)

\* into_trace from the end of the 8-bit segment (writer w8, cursor i): the
\* fill of column t and the 16-bit segment
into_trace_16bit(map, g, w8) ==
    Returned(w8,
             write_16bit_segment(
                 fill_from(fill_to(w8, "t", w8.step, ZERO), "t", w8.step, ONE),
                 map, Iter(map), 0),
             g)

\* let mut i = num_padding_rows
start_at(w, i) == [w EXCEPT !.step = i]

\* into_trace_8bit leaving column v of the padding rows as allocated
into_trace_8bit_v_unpadded(map, tl, g, lookups_8bit, num_padding_rows) ==
    into_trace_16bit(map, g,
        write_8bit_segment(
            start_at(fill_to(fill_to(alloc_trace(tl, g), "s0", num_padding_rows, ZERO),
                             "s1", num_padding_rows, ZERO),
                     num_padding_rows),
            lookups_8bit, 0, NUM_8BIT - 1))

\* into_trace from the allocation: the padding rows and the 8-bit segment
into_trace_8bit(map, tl, g, lookups_8bit, num_padding_rows) ==
    into_trace_16bit(map, g,
        write_8bit_segment(
            start_at(fill_to(fill_to(fill_to(alloc_trace(tl, g),
                                             "s0", num_padding_rows, ZERO),
                                     "s1", num_padding_rows, ZERO),
                             "v", num_padding_rows, ZERO),
                     num_padding_rows),
            lookups_8bit, 0, NUM_8BIT - 1))

\* into_trace_sized padding up to the end of the trace, the random rows
\* forgotten
into_trace_sized_no_tail(map, tl, nrr, g, lookups_8bit, tlen) ==
    IF ~(tlen + nrr <= tl)
    THEN Panicked("target trace length too small")
    ELSE into_trace_8bit(map, tl, g, lookups_8bit, tl - tlen)

\* into_trace_sized asking for a spare row
into_trace_sized_strict(map, tl, nrr, g, lookups_8bit, tlen) ==
    IF ~(tlen + nrr < tl)
    THEN Panicked("target trace length too small")
    ELSE into_trace_8bit(map, tl, g, lookups_8bit, tl - tlen - nrr)

\* into_trace from the second assertion, on the required length
into_trace_sized(map, tl, nrr, g, lookups_8bit, tlen) ==
    IF ~(tlen + nrr <= tl)
    THEN Panicked("target trace length too small")
    ELSE into_trace_8bit(map, tl, g, lookups_8bit, tl - tlen - nrr)

into_trace_built(map, tl, nrr, g, b) ==
    into_trace_sized(map, tl, nrr, g, b[1], get_num_8bit_rows(b[1]) + b[2])

\* RangeChecker::into_trace: the outcome of the call
into_trace(map, tl, nrr, g) ==
    IF ~is_power_of_two(tl)
    THEN Panicked("target trace length is not a power of two")
    ELSE into_trace_built(map, tl, nrr, g, build_8bit_lookup(map))

\* ------------------------------------------------------------------------
\* The state machine
\* ------------------------------------------------------------------------

\* RangeChecker::new seeding the lower endpoint only
Init_lower_only ==
    /\ lookups = (0 :> 0)
    /\ calls = [x \in Values |-> 0]
    /\ pc = "run"
    /\ ret = NoRet
    /\ target_len = 0
    /\ num_rand_rows = 0
    /\ uninit = NoRet
    /\ trace = <<>>
    /\ step = 0
    /\ nwrites = 0
    /\ seg16 = 0
    /\ err = ""
    /\ written = <<>>
    /\ order = <<>>
    /\ other = [lookups |-> (0 :> 0), order |-> <<>>,
                ret |-> NoRet, pc |-> "run", err |-> "", trace |-> <<>>,
                uninit |-> NoRet]
    /\ wv_args = [num_lookups |-> 0, value |-> 0, calls |-> 0]
    /\ process = [clk |-> 0, aux_table |-> 0]
    /\ min_trace_len = 0

\* RangeChecker::new
Init ==
    /\ lookups = (0 :> 0) @@ (U16_MAX :> 0)
    /\ calls = [x \in Values |-> 0]
    /\ pc = "run"
    /\ ret = NoRet
    /\ target_len = 0
    /\ num_rand_rows = 0
    /\ uninit = NoRet
    /\ trace = <<>>
    /\ step = 0
    /\ nwrites = 0
    /\ seg16 = 0
    /\ err = ""
    /\ written = <<>>
    /\ order = <<>>
    /\ other = [lookups |-> (0 :> 0) @@ (U16_MAX :> 0), order |-> <<>>,
                ret |-> NoRet, pc |-> "run", err |-> "", trace |-> <<>>,
                uninit |-> NoRet]
    /\ wv_args = [num_lookups |-> 0, value |-> 0, calls |-> 0]
    /\ process = [clk |-> 0, aux_table |-> 0]
    /\ min_trace_len = 0

RECURSIVE SumOver(_, _)
SumOver(f, S) ==
    IF S = {} THEN 0
    ELSE LET x == CHOOSE y \in S : TRUE IN f[x] + SumOver(f, S \ {x})

NumCalls == SumOver(calls, DOMAIN calls)

\* add_value inserting an absent value with count 0 (or_insert(0))
add_value_or_insert_zero(map, value) ==
    IF value \in DOMAIN map
    THEN [map EXCEPT ![value] = @ + 1]
    ELSE map @@ (value :> 0)

\* RangeChecker::add_value: the map after the call
\* (entry(value).and_modify(|v| *v += 1).or_insert(1))
add_value(map, value) ==
    IF value \in DOMAIN map
    THEN [map EXCEPT ![value] = @ + 1]
    ELSE map @@ (value :> 1)

\* RangeChecker::add_value
AddValue(value) ==
    /\ pc = "run"
    /\ NumCalls < MaxAdds
    /\ lookups' = add_value(lookups, value)
    /\ calls' = [calls EXCEPT ![value] = @ + 1]
    /\ ret' = NoRet
    /\ UNCHANGED <<pc, target_len, num_rand_rows, uninit, trace, step,
                   nwrites, seg16, err, written>>
    /\ UNCHANGED scenario

\* RangeChecker::trace_len
TraceLen ==
    /\ pc = "run"
    /\ ret' = trace_len(lookups)
    /\ UNCHANGED <<lookups, calls, pc, target_len, num_rand_rows, uninit,
                   trace, step, nwrites, seg16, err, written>>
    /\ UNCHANGED scenario

\* the outcome r of into_trace becomes the state
Outcome(r) ==
    /\ pc' = r.pc
    /\ err' = r.err
    /\ trace' = r.trace
    /\ uninit' = r.uninit
    /\ step' = r.step
    /\ nwrites' = r.nwrites
    /\ seg16' = r.seg16
    /\ written' = r.written

\* RangeChecker::into_trace (consumes the checker)
IntoTrace(tl, nrr, g) ==
    /\ pc = "run"
    /\ Outcome(into_trace(lookups, tl, nrr, g))
    /\ target_len' = tl
    /\ num_rand_rows' = nrr
    /\ UNCHANGED <<lookups, calls, ret>>
    /\ UNCHANGED scenario

\* the numbers of random rows handed to into_trace with target length tl:
\* none, a few, the largest tail that still fits and the smallest that
\* does not
RandRows(tl) ==
    {n \in (0..MaxRandRows) \cup {tl - trace_len(lookups), tl - trace_len(lookups) + 1} :
        n >= 0}

Next ==
    \/ \E value \in Values : AddValue(value)
    \/ TraceLen
    \/ \E tl \in TargetLens, g \in Garbage :
          \E nrr \in RandRows(tl) : IntoTrace(tl, nrr, g)

Spec == Init /\ [][Next]_vars

\* ------------------------------------------------------------------------
\* Two accumulators side by side: both are built by RangeChecker::new
\* (Init), each receives its own add_value calls in its own order, and once
\* both have received the same calls they are materialized with the same
\* target_len and num_rand_rows, each into its own freshly allocated memory.
\* ------------------------------------------------------------------------

\* number of calls add_value(x) in the sequence of calls s
CountIn(s, x) == Cardinality({i \in DOMAIN s : s[i] = x})

\* the sequences of calls s and t hold the same multiset of values
SameMultiset(s, t) ==
    \A x \in OrderValues : CountIn(s, x) = CountIn(t, x)

\* RangeChecker::add_value on the first accumulator
AddFirst(value) ==
    /\ pc = "run"
    /\ Len(order) < MaxOrderAdds
    /\ lookups' = add_value(lookups, value)
    /\ calls' = [calls EXCEPT ![value] = @ + 1]
    /\ order' = Append(order, value)
    /\ ret' = NoRet
    /\ UNCHANGED <<pc, target_len, num_rand_rows, uninit, trace, step,
                   nwrites, seg16, err, written>>
    /\ UNCHANGED <<other, wv_args, process, min_trace_len>>

\* RangeChecker::add_value on the second accumulator
AddSecond(value) ==
    /\ other.pc = "run"
    /\ Len(other.order) < MaxOrderAdds
    /\ other' = [other EXCEPT !.lookups = add_value(@, value),
                              !.order = Append(@, value),
                              !.ret = NoRet]
    /\ UNCHANGED <<lookups, calls, pc, ret, target_len, num_rand_rows, uninit,
                   trace, step, nwrites, seg16, err, written>>
    /\ UNCHANGED <<order, wv_args, process, min_trace_len>>

\* RangeChecker::trace_len on the second accumulator
TraceLenSecond ==
    /\ other.pc = "run"
    /\ other' = [other EXCEPT !.ret = trace_len(other.lookups)]
    /\ UNCHANGED <<lookups, calls, pc, ret, target_len, num_rand_rows, uninit,
                   trace, step, nwrites, seg16, err, written>>
    /\ UNCHANGED <<order, wv_args, process, min_trace_len>>

\* the outcome r of into_trace on the second accumulator
SecondOutcome(r) ==
    other' = [other EXCEPT !.pc = r.pc, !.err = r.err, !.trace = r.trace,
                           !.uninit = r.uninit]

\* RangeChecker::into_trace on both accumulators, with the same arguments;
\* the memory of the first holds g, that of the second g2
IntoTraceBoth(tl, nrr, g, g2) ==
    /\ pc = "run"
    /\ other.pc = "run"
    /\ SameMultiset(order, other.order)
    /\ Outcome(into_trace(lookups, tl, nrr, g))
    /\ SecondOutcome(into_trace(other.lookups, tl, nrr, g2))
    /\ target_len' = tl
    /\ num_rand_rows' = nrr
    /\ UNCHANGED <<lookups, calls, ret>>
    /\ UNCHANGED <<order, wv_args, process, min_trace_len>>

NextOrder ==
    \/ \E value \in OrderValues : AddFirst(value)
    \/ \E value \in OrderValues : AddSecond(value)
    \/ TraceLen
    \/ TraceLenSecond
    \/ \E tl \in TargetLens, nrr \in 0..MaxRandRows :
          \E g \in Garbage, g2 \in Garbage :
              g # g2 /\ IntoTraceBoth(tl, nrr, g, g2)

SpecOrder == Init /\ [][NextOrder]_vars

\* ------------------------------------------------------------------------
\* write_value called directly: a trace of PackLen rows is allocated as
\* into_trace allocates it, the cursor starts at row 0, and write_value is
\* called on it with any arguments, each call starting where the previous
\* one stopped.
\* ------------------------------------------------------------------------

\* unsafe { uninit_vector(len) } for the four columns, let mut i = 0
Allocate(g) ==
    /\ pc = "run"
    /\ uninit = NoRet
    /\ uninit' = g
    /\ trace' = [t |-> alloc_trace(PackLen, g).t, s0 |-> alloc_trace(PackLen, g).s0,
                 s1 |-> alloc_trace(PackLen, g).s1, v |-> alloc_trace(PackLen, g).v]
    /\ step' = 0
    /\ UNCHANGED <<lookups, calls, pc, ret, target_len, num_rand_rows, nwrites,
                   seg16, err, written>>
    /\ UNCHANGED scenario

\* the trace and the cursor of the state, as write_value receives them
Writer ==
    [t |-> trace.t, s0 |-> trace.s0, s1 |-> trace.s1, v |-> trace.v,
     len |-> PackLen, step |-> step, nwrites |-> nwrites, rows |-> written,
     oob |-> FALSE]

\* write_value returned, leaving the writer w
Wrote(w) ==
    IF w.oob
    THEN Outcome(Panicked("index out of bounds"))
    ELSE /\ trace' = [t |-> w.t, s0 |-> w.s0, s1 |-> w.s1, v |-> w.v]
         /\ step' = w.step
         /\ nwrites' = w.nwrites
         /\ written' = w.rows
         /\ UNCHANGED <<pc, err, uninit, seg16>>

\* write_value(trace, &mut i, num_lookups, value)
WriteValue(num_lookups, value) ==
    /\ pc = "run"
    /\ uninit # NoRet
    /\ wv_args.calls < MaxWriteCalls
    /\ Wrote(write_value(Writer, num_lookups, value))
    /\ wv_args' = [num_lookups |-> num_lookups, value |-> value,
                   calls |-> wv_args.calls + 1]
    /\ UNCHANGED <<lookups, calls, ret, target_len, num_rand_rows>>
    /\ UNCHANGED <<order, other, process, min_trace_len>>

NextPack ==
    \/ \E g \in Garbage : Allocate(g)
    \/ \E num_lookups \in 0..MaxLookups, value \in PackValues :
          WriteValue(num_lookups, value)

SpecPack == Init /\ [][NextPack]_vars

\* ------------------------------------------------------------------------
\* finalize_trace (processor/src/trace/mod.rs): the length of the execution
\* trace and the call of RangeChecker::into_trace.  The system, decoder,
\* stack and auxiliary-table components enter by their lengths only.
\* ------------------------------------------------------------------------

\* usize::next_power_of_two: the smallest power of two >= n, from p up
RECURSIVE next_power_of_two_from(_, _)
next_power_of_two_from(p, n) ==
    IF p >= n THEN p ELSE next_power_of_two_from(2 * p, n)

next_power_of_two(n) == next_power_of_two_from(1, n)

\* max_len leaving out the range checker
max_len_clk_aux(clk, range_len, aux_len) ==
    IF clk >= aux_len THEN clk ELSE aux_len

\* [clk, range.trace_len(), aux_table.trace_len()].into_iter().max()
max_len(clk, range_len, aux_len) ==
    IF clk >= range_len /\ clk >= aux_len THEN clk
    ELSE IF range_len >= aux_len THEN range_len
    ELSE aux_len

\* finalize_trace from the assertion on the trace length tl
finalize_trace_sized(map, tl, min, g) ==
    IF ~(tl >= min)
    THEN Panicked("trace length must be at least MIN_TRACE_LEN")
    ELSE into_trace(map, tl, NUM_RAND_ROWS, g)

\* finalize_trace, range.trace_len() having returned range_len
FinalizeWith(clk, range_len, aux_len, min, g) ==
    /\ ret' = range_len
    /\ target_len' = next_power_of_two(max_len(clk, range_len, aux_len)
                                         + NUM_RAND_ROWS)
    /\ num_rand_rows' = NUM_RAND_ROWS
    /\ Outcome(finalize_trace_sized(
           lookups,
           next_power_of_two(max_len(clk, range_len, aux_len) + NUM_RAND_ROWS),
           min, g))

\* finalize_trace
FinalizeTrace(clk, aux_len, min, g) ==
    /\ pc = "run"
    /\ process' = [clk |-> clk, aux_table |-> aux_len]
    /\ min_trace_len' = min
    /\ FinalizeWith(clk, trace_len(lookups), aux_len, min, g)
    /\ UNCHANGED <<lookups, calls, order, other, wv_args>>

NextFinalize ==
    \/ \E value \in Values : AddValue(value)
    \/ \E clk \in Clks, aux_len \in AuxLens :
          \E min \in MinTraceLens, g \in Garbage :
              FinalizeTrace(clk, aux_len, min, g)

SpecFinalize == Init /\ [][NextFinalize]_vars

\* ------------------------------------------------------------------------
\* Reading the returned trace (rows are numbered from 0, as in the code)
\* ------------------------------------------------------------------------

T(r) == trace.t[r + 1]
S0(r) == trace.s0[r + 1]
S1(r) == trace.s1[r + 1]
V(r) == trace.v[r + 1]

\* number of lookups a row stands for: (0,0) 0, (1,0) 1, (0,1) 2, (1,1) 4
Weight(r) == S0(r) + 2 * S1(r) + S0(r) * S1(r)

\* sum of the weights of the rows of R
SumWeightsBy(R, ws) ==
    SumOver([w \in ws |-> w * Cardinality({r \in R : Weight(r) = w})], ws)

SumWeights(R) == SumWeightsBy(R, {Weight(r) : r \in R})

\* first row of the random tail
TailStart == target_len - num_rand_rows

\* the rows before the random tail
Body == 0..(TailStart - 1)

\* the rows of the 16-bit segment
Rows16 == {r \in Body : T(r) = 1}

\* the padding rows as the claims define them
Pad == target_len - trace_len(lookups) - num_rand_rows

\* the rows of the 8-bit segment
Rows8From(pad) == {r \in Body : T(r) = 0 /\ r >= pad}

Rows8 == Rows8From(Pad)

\* ------------------------------------------------------------------------
\* Claims
\* ------------------------------------------------------------------------

ConservedOn(R) ==
    /\ \A x \in Values : SumWeights({r \in R : V(r) = x}) = calls[x]
    /\ \A r \in R : V(r) \notin Values => Weight(r) = 0

\* C1: multiplicity conservation.  In the returned trace, for every value x
\* the weights (s0 + 2*s1 + s0*s1) of the rows of the 16-bit segment that
\* carry v = x sum to the number of add_value(x) calls; bridge rows and the
\* rows of values never added have weight 0.
C1_MultiplicityConservation == pc = "done" => ConservedOn(Rows16)

\* a value looked up three times (two rows), an endpoint never
C1_Witness ==
    /\ pc = "done"
    /\ calls[100] = 3
    /\ calls[0] = 0
    /\ SumWeights({r \in Rows16 : V(r) = 100}) = 3

\* C2: the projected length agrees with the materialization.  The value
\* trace_len() returns is the number of rows into_trace writes for the 8-bit
\* and the 16-bit segment, and the write cursor ends at
\* target_len - num_rand_rows.
C2_ProjectedLengthAgrees ==
    pc = "done" =>
        /\ ret # NoRet => ret = nwrites
        /\ trace_len(lookups) = nwrites
        /\ step = target_len - num_rand_rows

\* trace_len() was called, then into_trace wrote bridge rows up to a value
\* an exact multiple of 255 away and up to one that is not
C2_Witness ==
    /\ pc = "done"
    /\ ret # NoRet
    /\ calls[100] > 0
    /\ calls[2 * MAX_DELTA] > 0
    /\ num_rand_rows > 0

\* lookups the 8-bit rows carrying d stand for (W8: the 8-bit rows of
\* non-zero weight, D8: the values they carry)
Sum8(W8, D8, d) ==
    IF d \in D8 THEN SumWeights({r \in W8 : V(r) = d}) ELSE 0

\* pairs of consecutive 16-bit rows d apart (P16: the first rows of the
\* pairs, D16: the deltas that occur)
Count16(P16, D16, d) ==
    IF d \in D16 THEN Cardinality({r \in P16 : V(r + 1) - V(r) = d}) ELSE 0

CoversOn(table, W8, D8, P16, D16) ==
    /\ \A d \in 0..(NUM_8BIT - 1) :
          /\ Sum8(W8, D8, d) = Count16(P16, D16, d)
          /\ Sum8(W8, D8, d) = table[d]
    /\ D16 \subseteq 0..(NUM_8BIT - 1)

CoversPairs(table, W8, P16) ==
    CoversOn(table, W8, {V(r) : r \in W8}, P16, {V(r + 1) - V(r) : r \in P16})

\* C3: the 8-bit table covers the deltas of the 16-bit segment.  For each d
\* in 0..255 the weights of the 8-bit rows with v = d sum to histogram[d],
\* which is the number of pairs of consecutive 16-bit rows d apart.
C3_DeltasCovered ==
    pc = "done" =>
        CoversPairs(build_8bit_lookup(lookups)[1],
                    {r \in Rows8 : Weight(r) # 0},
                    {r \in Rows16 : r + 1 < TailStart})

\* repeated rows (delta 0), full bridge steps (255) and remainders (100, 155)
C3_Witness ==
    /\ pc = "done"
    /\ calls[100] = 3
    /\ \E r \in Rows16 : r + 1 < TailStart /\ V(r + 1) - V(r) = 0
    /\ \E r \in Rows16 : r + 1 < TailStart /\ V(r + 1) - V(r) = 155

StepsBoundedOn(P) == \A r \in P : V(r + 1) - V(r) \in 0..MAX_DELTA

C5_Endpoints ==
    pc = "done" =>
        /\ Rows16 # {}
        /\ \A r \in Rows16 : (r = 0 \/ T(r - 1) = 0) => V(r) = 0
        /\ T(TailStart - 1) = 1
        /\ V(TailStart - 1) = U16_MAX

\* no endpoint was ever added, and the trace has a random tail
C5_Witness ==
    /\ pc = "done"
    /\ calls[0] = 0
    /\ calls[U16_MAX] = 0
    /\ calls[100] > 0
    /\ num_rand_rows > 0

\* C6: coverage of the 8-bit segment.  The rows with t = 0 (padding and
\* 8-bit segment) carry a non-decreasing v that grows by 0 or 1 from row to
\* row, and the values carried by the 8-bit segment are exactly 0..255:
\* every value has a row, also one with no lookup.
C6_Coverage8Bit ==
    pc = "done" =>
        /\ \A r \in 0..(target_len - 2) :
              (T(r) = 0 /\ T(r + 1) = 0) => V(r + 1) - V(r) \in {0, 1}
        /\ {V(r) : r \in Rows8} = 0..(NUM_8BIT - 1)

\* a trace with padding rows, whose 8-bit table has empty slots and a
\* slot of several rows
C6_Witness ==
    /\ pc = "done"
    /\ Pad > 0
    /\ build_8bit_lookup(lookups)[1][7] = 0
    /\ build_8bit_lookup(lookups)[1][0] > 0
    /\ \E r \in Rows8 : V(r) = 7

FlagOn(first16) ==
    /\ \A r \in 0..(target_len - 1) : T(r) \in {0, 1}
    /\ \A r \in 0..(target_len - 2) : T(r) <= T(r + 1)
    /\ Cardinality({r \in 0..(target_len - 2) : T(r) # T(r + 1)}) <= 1
    /\ \A r \in 0..(target_len - 1) : (T(r) = 1) <=> (r >= first16)
    /\ first16 = seg16

PaddedOn(pad) ==
    /\ pad >= 0
    /\ \A r \in 0..(pad - 1) :
          S0(r) = 0 /\ S1(r) = 0 /\ V(r) = 0 /\ T(r) = 0
    /\ step - nwrites = pad
    /\ T(pad) = 0
    /\ V(pad) = 0

\* C9: padding.  With pad = target_len - (8-bit rows + 16-bit rows)
\* - num_rand_rows, the first pad rows hold s0 = s1 = v = 0 and t = 0, and
\* the 8-bit segment starts at row pad, with a row carrying v = 0.
C9_Padding == pc = "done" => PaddedOn(Pad)

\* a trace with padding rows, allocated with non-zero content
C9_Witness ==
    /\ pc = "done"
    /\ Pad > 0
    /\ uninit # 0
    /\ calls[0] > 0

Fits == trace_len(lookups) + num_rand_rows <= target_len

\* C10: the failures of the materialization.  into_trace panics, returning
\* no trace, exactly when target_len is no power of two or the projected
\* length plus num_rand_rows exceeds target_len, each with its assertion's
\* message; when both conditions hold it returns; add_value and trace_len
\* do not fail.
C10_FailuresExhaustive ==
    /\ pc = "run" => err = ""
    /\ pc = "done" => (is_power_of_two(target_len) /\ Fits /\ err = "")
    /\ pc = "panic" =>
          /\ trace = <<>>
          /\ ~is_power_of_two(target_len) \/ ~Fits
          /\ ~is_power_of_two(target_len)
                => err = "target trace length is not a power of two"
          /\ is_power_of_two(target_len)
                => err = "target trace length too small"

\* a panic for a power of two one row too short, after add_value and
\* trace_len calls
C10_Witness ==
    /\ pc = "panic"
    /\ is_power_of_two(target_len)
    /\ trace_len(lookups) + num_rand_rows = target_len + 1
    /\ calls[100] > 0
    /\ ret # NoRet

\* the cells of row r of the trace of the second accumulator
OtherRow(r) ==
    <<other.trace.t[r + 1], other.trace.s0[r + 1], other.trace.s1[r + 1],
      other.trace.v[r + 1]>>

\* C11: order independence.  Two accumulators that received the same
\* multiset of add_value calls, in whatever orders, return the same
\* trace_len(), and into_trace with the same target_len and num_rand_rows
\* has the same outcome on both: it fails on both or returns on both, with
\* identical cells t, s0, s1, v in every row before the random tail.
C11_OrderIndependence ==
    SameMultiset(order, other.order) =>
        /\ (ret # NoRet /\ other.ret # NoRet) => ret = other.ret
        /\ pc = "done" <=> other.pc = "done"
        /\ pc = "panic" <=> other.pc = "panic"
        /\ err = other.err
        /\ pc = "done" =>
              \A r \in Body : <<T(r), S0(r), S1(r), V(r)>> = OtherRow(r)

\* the same two values in opposite orders, trace_len() called on both, the
\* traces written into memory of different content, with a random tail
C11_Witness ==
    /\ order = <<100, 2 * MAX_DELTA>>
    /\ other.order = <<2 * MAX_DELTA, 100>>
    /\ ret # NoRet
    /\ other.ret = ret
    /\ pc = "done"
    /\ other.pc = "done"
    /\ num_rand_rows > 0
    /\ uninit # other.uninit
    /\ V(TailStart) # other.trace.v[TailStart + 1]

\* the count of x in the lookup map, an absent key counting zero
CountOf(map, x) == IF x \in DOMAIN map THEN map[x] ELSE 0

\* the map holds both endpoints and the count of every value is the number
\* of add_value calls made with it
CountsCalls ==
    /\ 0 \in DOMAIN lookups
    /\ U16_MAX \in DOMAIN lookups
    /\ DOMAIN lookups \subseteq Values
    /\ \A x \in Values : CountOf(lookups, x) = calls[x]

\* a step that calls add_value(v) raises the count of v by one, inserting
\* it at 1 when it was absent, and changes no other entry
AddsOne ==
    \A v \in Values :
        calls'[v] = calls[v] + 1 =>
            /\ v \in DOMAIN lookups'
            /\ lookups'[v] = CountOf(lookups, v) + 1
            /\ v \notin DOMAIN lookups => lookups'[v] = 1
            /\ DOMAIN lookups' = DOMAIN lookups \cup {v}
            /\ \A x \in DOMAIN lookups \ {v} : lookups'[x] = lookups[x]

\* C12: the accumulator state invariant.  After construction and any
\* sequence of add_value calls the lookup map contains the keys 0 and 65535
\* and the count of every value equals the number of add_value calls made
\* with it (an absent key meaning no call); each add_value(v) raises the
\* count of v by exactly one, inserting it at 1 if absent, and leaves every
\* other entry unchanged.
C12_AccumulatorInvariant == []CountsCalls /\ [][AddsOne]_vars

\* a value inserted by its first call and incremented by its second, a
\* seeded endpoint incremented from 0, the other endpoint never added and
\* another value still absent
C12_Witness ==
    /\ CountOf(lookups, 100) = 2
    /\ calls[100] = 2
    /\ lookups[U16_MAX] = 1
    /\ lookups[0] = 0
    /\ (2 * MAX_DELTA) \notin DOMAIN lookups

\* into_trace was called on an accumulator without any add_value call,
\* with target_len = 1024 and num_rand_rows = 0
EmptyRun ==
    /\ pc # "run"
    /\ NumCalls = 0
    /\ target_len = 1024
    /\ num_rand_rows = 0

\* the first row of the 16-bit segment
First16 == CHOOSE r \in Rows16 : \A q \in Rows16 : r <= q

\* from row first16 on, the trace is the row (t=1, s0=0, s1=0, v=0), then
\* nbridge rows without lookups carrying 255, 2*255, ..., then the row
\* (t=1, s0=0, s1=0, v=65535), which ends the trace
SegmentIs(first16, nbridge) ==
    /\ first16 + nbridge + 2 = target_len
    /\ first16 = 0 \/ T(first16 - 1) = 0
    /\ <<T(first16), S0(first16), S1(first16), V(first16)>> = <<1, 0, 0, 0>>
    /\ \A k \in 1..nbridge :
          <<T(first16 + k), S0(first16 + k), S1(first16 + k), V(first16 + k)>>
              = <<1, 0, 0, k * MAX_DELTA>>
    /\ <<T(target_len - 1), S0(target_len - 1), S1(target_len - 1),
         V(target_len - 1)>> = <<1, 0, 0, U16_MAX>>

\* the scenario of the empty accumulator, with nbridge bridge rows
EmptyScenario(table, num_16bit_rows, nbridge) ==
    /\ pc = "done"
    /\ SegmentIs(First16, nbridge)
    /\ num_16bit_rows = 258
    /\ Cardinality(Rows16) = 258
    /\ table[MAX_DELTA] = 257
    /\ \A d \in 0..(NUM_8BIT - 1) : d # MAX_DELTA => table[d] = 0

\* C13 as claimed: with no add_value call, target_len = 1024 and
\* num_rand_rows = 0, the 16-bit segment is the row (t=1,s0=0,s1=0,v=0), then
\* 257 bridge rows spaced by 255, then the row (t=1,s0=0,s1=0,v=65535); the
\* 16-bit row count is 258; histogram[255] = 257 and every other slot is 0;
\* and the trace fits in 1024 rows.
C13_EmptyAccumulator257 ==
    EmptyRun =>
        EmptyScenario(build_8bit_lookup(lookups)[1],
                      build_8bit_lookup(lookups)[2], 257)

\* C13 as amended: with no add_value call, target_len = 1024 and
\* num_rand_rows = 0, the 16-bit segment is the row (t=1,s0=0,s1=0,v=0), then
\* 256 bridge rows spaced by 255 (v = 255, 510, ..., 65280), then the row
\* (t=1,s0=0,s1=0,v=65535), the 257th step of 255; the 16-bit row count is
\* 258; histogram[255] = 257 and every other slot is 0; and the trace fits
\* in 1024 rows (into_trace returns).
C13_EmptyAccumulator256 ==
    EmptyRun =>
        EmptyScenario(build_8bit_lookup(lookups)[1],
                      build_8bit_lookup(lookups)[2], 256)

\* the trace of the empty accumulator in 1024 rows: the last bridge row
\* carries 65280 and is followed by the row of 65535
C13_Witness ==
    /\ EmptyRun
    /\ pc = "done"
    /\ V(target_len - 2) = 256 * MAX_DELTA
    /\ V(target_len - 1) = U16_MAX
    /\ nwrites = 578

\* the selectors a row of write_value(value, n) holds, k rows after the
\* first: floor(n/4) rows (1,1), then floor((n mod 4)/2) rows (0,1), then
\* (n mod 2) rows (1,0); the one row of n = 0 holds (0,0)
PackedSelectors(n, k) ==
    IF n = 0 THEN <<0, 0>>
    ELSE IF k < n \div 4 THEN <<1, 1>>
    ELSE IF k < (n \div 4) + ((n % 4) \div 2) THEN <<0, 1>>
    ELSE <<1, 0>>

\* number of lookups row r of the columns tr stands for
WeightIn(tr, r) ==
    tr.s0[r + 1] + 2 * tr.s1[r + 1] + tr.s0[r + 1] * tr.s1[r + 1]

\* the rows i..(j - 1) of the columns tr are the rows of write_value(value, n)
PackedOn(tr, i, j, n, value) ==
    /\ j = i + lookups_to_rows(n)
    /\ j - i = IF n = 0 THEN 1
               ELSE (n \div 4) + ((n % 4) \div 2) + (n % 2)
    /\ \A r \in i..(j - 1) :
          /\ tr.v[r + 1] = value
          /\ <<tr.s0[r + 1], tr.s1[r + 1]>> = PackedSelectors(n, r - i)
    /\ SumOver([r \in i..(j - 1) |-> WeightIn(tr, r)], i..(j - 1)) = n

\* C14: row packing.  A write_value(value, n) call that returns advances
\* the cursor by exactly lookups_to_rows(n) rows, all carrying v = value:
\* one row with selectors (0,0) for n = 0; for n > 0 first floor(n/4) rows
\* with (s0,s1) = (1,1), then floor((n mod 4)/2) rows with (0,1), then
\* (n mod 2) rows with (1,0), in that order, so that the weights of the
\* rows sum to n.
C14_RowPacking ==
    [][(pc' = "run" /\ wv_args'.calls = wv_args.calls + 1) =>
          PackedOn(trace', step, step', wv_args'.num_lookups, wv_args'.value)]_vars

\* write_value(value, 5) as the second call on a trace: a row (1,1) followed
\* by a row (1,0), after the rows of the first call
C14_Witness ==
    /\ pc = "run"
    /\ wv_args.calls = 2
    /\ wv_args.num_lookups = 5
    /\ step >= 3
    /\ <<trace.s0[step - 1], trace.s1[step - 1]>> = <<1, 1>>
    /\ <<trace.s0[step], trace.s1[step]>> = <<1, 0>>
    /\ trace.v[step] = wv_args.value

\* C15: the trace assembler honours the environmental contract.  In
\* finalize_trace, whatever the accumulator holds and whatever clk and the
\* length of the auxiliary table are, the target length
\* next_power_of_two(max(clk, range.trace_len(), aux_table.trace_len())
\* + NUM_RAND_ROWS) is a power of two and range.trace_len() + NUM_RAND_ROWS
\* does not exceed it, so range.into_trace(trace_len, NUM_RAND_ROWS) trips
\* neither of its assertions: finalize_trace fails on its own assertion of
\* the minimal trace length only.
C15_AssemblerContract ==
    pc # "run" =>
        /\ num_rand_rows = NUM_RAND_ROWS
        /\ is_power_of_two(target_len)
        /\ target_len >= process.clk + NUM_RAND_ROWS
        /\ target_len >= process.aux_table + NUM_RAND_ROWS
        /\ ret = trace_len(lookups)
        /\ trace_len(lookups) + NUM_RAND_ROWS <= target_len
        /\ err # "target trace length is not a power of two"
        /\ err # "target trace length too small"
        /\ pc = "panic" =>
              /\ err = "trace length must be at least MIN_TRACE_LEN"
              /\ target_len < min_trace_len
        /\ target_len >= min_trace_len => pc = "done"

\* a process whose clock is one less than a power of two: the random row
\* fills the trace exactly, and the range checker, with a value added, is
\* materialized into it
C15_Witness ==
    /\ pc = "done"
    /\ process.clk = 1023
    /\ process.aux_table = 0
    /\ target_len = 1024
    /\ calls[100] > 0
    /\ step = target_len - NUM_RAND_ROWS

\* every cell of the rows R holds a value into_trace assigns: a flag in t,
\* s0 and s1 and a 16-bit value in v; memory allocated with content above
\* 2^16 - 1 shows a cell that was never assigned
AssignedOn(R) ==
    \A r \in R :
        /\ T(r) \in {0, 1}
        /\ S0(r) \in {0, 1}
        /\ S1(r) \in {0, 1}
        /\ V(r) \in 0..U16_MAX

\* write_trace_row wrote the rows pad, pad + 1, ..., last in this order,
\* each once, and no other row
WrittenOnceOn(pad, last) ==
    /\ Len(written) = (last - pad) + 1
    /\ \A k \in 1..Len(written) : written[k] = pad + (k - 1)
    /\ \A k \in 1..(Len(written) - 1) : written[k] < written[k + 1]
    /\ \A k \in 1..Len(written) : written[k] < target_len
    /\ nwrites = Len(written)

\* C16: no uninitialized cell outside the random tail.  When into_trace
\* returns, every cell of t, s0, s1 and v in the rows
\* [0, target_len - num_rand_rows) has been assigned; the rows from pad up to
\* the random tail are written by write_trace_row exactly once each, at
\* strictly increasing row indices; and no write targets a row index
\* >= target_len: no call ends on an index out of bounds.
C16_NoUninitializedCell ==
    /\ err # "index out of bounds"
    /\ pc = "done" =>
          /\ AssignedOn(Body)
          /\ WrittenOnceOn(Pad, TailStart - 1)

\* a trace allocated over memory holding a value into_trace never writes,
\* with padding rows and a random tail: the writes start at row pad and end
\* on the row before the tail, whose cells are left as allocated
C16_Witness ==
    /\ pc = "done"
    /\ uninit > U16_MAX
    /\ Pad > 0
    /\ num_rand_rows > 0
    /\ calls[100] > 0
    /\ written[1] = Pad
    /\ written[Len(written)] = TailStart - 1
    /\ V(TailStart) = uninit

====
